---- MODULE Spec2Model ----
(***************************************************************************)
(* gorl: a leaky bucket (Bucket) and a registry of buckets keyed by        *)
(* identity (BucketManager).                                               *)
(*                                                                         *)
(* Time is counted in ticks of half a second: time.Second is Sec ticks.    *)
(* The zero time.Time (the lastUpdate of a bucket nobody has used) is 0.   *)
(* A bucket is a record [Limit, Burst, Refill, tokens, lastUpdate]; every  *)
(* method of Bucket is an operator from the bucket (and the arguments) to  *)
(* the bucket it leaves, the value it returns and the bucket as it stood   *)
(* right after refill ran (mid).                                           *)
(***************************************************************************)
EXTENDS Integers, Sequences, FiniteSets, TLC

\* time.Second, in ticks
Sec == 2

\* the timestamps passed to the At methods range over 0..MaxTime ticks
MaxTime == 5

\* and, for the buckets of the tests, over 0..MaxSecs seconds
MaxSecs == 4

\* the goroutines that call the BucketManager, the calls they make between
\* them, and the last tick of the clock behind time.Now()
NumThreads == 2
MaxCalls == 2
MaxNow == 1

\* the calls the goroutines sharing one Bucket make between them
MaxOps == 3

\* a bucket left to recover is over-drawn at timestamps 0..MaxDrawTime
MaxDrawTime == 1

\* the intervals passed to the functions of utils.go range over
\* 1..MaxInterval ticks
MaxInterval == 3

\* a call that would leave the balance below -MaxDebt * Limit (a debt that
\* takes more than MaxDebt refills to pay back) is not taken
MaxDebt == 3

VARIABLES
    b,       \* the Bucket under test (sequential use of one bucket)
    pre,     \* b as it stood before the last call
    mid,     \* b as it stood right after the last call's refill
    call,    \* the last call: [op, t, n, ok, val]
    chrono   \* TRUE while the timestamps passed so far never descended

VARIABLES
    m,         \* the BucketManager's Limit, Burst and Refill
    buckets,   \* m.buckets: identity -> reference into heap, Nil if absent
    bucketMux, \* m.bucketMux: the goroutines holding it for reading
    heap,      \* every Bucket constructed so far: [bk, id, calls]
    pc,        \* where each goroutine stands
    fr,        \* each goroutine's call: its arguments, locals and result
    now,       \* the clock behind time.Now()
    purged,    \* the identities Delete or Purge has removed
    last       \* the last call to return, and the number of calls begun

VARIABLES
    mux,       \* b.mux: the goroutine holding it for writing (Nil if none)
               \* and the goroutines holding it for reading
    gr,        \* the goroutines sharing b: where each stands, its call
               \* and its locals
    done       \* the calls on b that have returned, with what they returned

bvars == <<b, pre, mid, call, chrono>>

mvars == <<mux, gr, done>>

rvars == <<m, buckets, bucketMux, heap, pc, fr, now, purged, last>>

VARIABLES
    util       \* a call of a function of utils.go: its arguments and result

vars == <<b, pre, mid, call, chrono,
          m, buckets, bucketMux, heap, pc, fr, now, purged, last,
          mux, gr, done, util>>

----------------------------------------------------------------------------
(* utilities *)

Abs(x) == IF x < 0 THEN -x ELSE x

\* Go's integer division truncates toward zero
TruncDiv(a, d) == IF a >= 0 THEN a \div d ELSE -((-a) \div d)

\* counts an interval that has only begun
intervalCount_Started(start, end, interval) ==
    (Abs(end - start) + interval - 1) \div interval

\* intervalCount: whole intervals in |end - start|
intervalCount(start, end, interval) == Abs(end - start) \div interval

nextAfter(start, end, interval) ==
    LET diff == intervalCount(start, end, interval)
        mod  == diff * interval
        t    == start + mod
    IN  IF t > end THEN t ELSE t + interval

\* the comparison turned round
min_Larger(x, y) == IF x > y THEN x ELSE y

min(x, y) == IF x < y THEN x ELSE y

\* no function of utils.go called
NoUtil == [fn |-> "none", start |-> 0, end |-> 0, interval |-> 1, val |-> 0]

----------------------------------------------------------------------------
(* Bucket *)

ZeroTime == 0

\* NewBucket, were it to start the bucket empty
NewBucket_Empty(limit, burst, refillEvery) ==
    [Limit |-> limit, Burst |-> burst, Refill |-> refillEvery,
     tokens |-> 0, lastUpdate |-> ZeroTime]

NewBucket(limit, burst, refillEvery) ==
    [Limit |-> limit, Burst |-> burst, Refill |-> refillEvery,
     tokens |-> burst, lastUpdate |-> ZeroTime]

\* skipDiff, were it to leave lastUpdate where it was
skipDiff_Stay(bk, diff) == bk

\* skipDiff, were it to skip one interval more than it was told to
skipDiff_Over(bk, diff) ==
    [bk EXCEPT !.lastUpdate = bk.lastUpdate + (diff + 1) * bk.Refill]

skipDiff(bk, diff) ==
    [bk EXCEPT !.lastUpdate = bk.lastUpdate + diff * bk.Refill]

\* clamps only a balance that lands exactly on Burst
refill_ClampOnEqual(bk, t) ==
    IF bk.tokens = bk.Burst
    THEN [bk EXCEPT !.lastUpdate = t]
    ELSE LET delta == intervalCount(bk.lastUpdate, t, bk.Refill)
             b1    == skipDiff(bk, delta)
             b2    == [b1 EXCEPT !.tokens = b1.tokens + delta * bk.Limit]
         IN  IF b2.tokens = b2.Burst
             THEN [b2 EXCEPT !.lastUpdate = t]
             ELSE b2

\* refill, were it to move lastUpdate to t whenever it credits tokens
refill_Anchor(bk, t) ==
    IF bk.tokens = bk.Burst
    THEN [bk EXCEPT !.lastUpdate = t]
    ELSE LET delta == intervalCount(bk.lastUpdate, t, bk.Refill)
             b2    == [bk EXCEPT !.tokens = bk.tokens + delta * bk.Limit,
                                 !.lastUpdate = t]
         IN  IF b2.tokens >= b2.Burst
             THEN [b2 EXCEPT !.tokens = b2.Burst]
             ELSE b2

\* refill, were it to forgive a debt before it credits the intervals
refill_CatchUp(bk, t) ==
    IF bk.tokens = bk.Burst
    THEN [bk EXCEPT !.lastUpdate = t]
    ELSE LET delta == intervalCount(bk.lastUpdate, t, bk.Refill)
             b1    == skipDiff(bk, delta)
             owed  == IF delta > 0 /\ b1.tokens < 0 THEN 0 ELSE b1.tokens
             b2    == [b1 EXCEPT !.tokens = owed + delta * bk.Limit]
         IN  IF b2.tokens >= b2.Burst
             THEN [b2 EXCEPT !.tokens = b2.Burst, !.lastUpdate = t]
             ELSE b2

refill(bk, t) ==
    IF bk.tokens = bk.Burst
    THEN [bk EXCEPT !.lastUpdate = t]
    ELSE LET delta == intervalCount(bk.lastUpdate, t, bk.Refill)
             b1    == skipDiff(bk, delta)
             b2    == [b1 EXCEPT !.tokens = b1.tokens + delta * bk.Limit]
         IN  IF b2.tokens >= b2.Burst
             THEN [b2 EXCEPT !.tokens = b2.Burst, !.lastUpdate = t]
             ELSE b2

\* the result of a method: the bucket it leaves, what it returns (ok for a
\* bool, val for an int64 or a time.Time), and the bucket right after refill
Result(bk, ok, val, after) ==
    [b |-> bk, ok |-> ok, val |-> val, mid |-> after]

CanDrawAt(bk, t, n) ==
    LET r == refill(bk, t)
    IN  Result(r, r.tokens >= n, 0, r)

\* refuses a draw of exactly the balance
DrawAt_Strict(bk, t, n) ==
    LET r == refill(bk, t)
    IN  IF r.tokens <= n
        THEN Result(r, FALSE, 0, r)
        ELSE Result([r EXCEPT !.tokens = r.tokens - n], TRUE, 0, r)

DrawAt(bk, t, n) ==
    LET r == refill(bk, t)
    IN  IF r.tokens < n
        THEN Result(r, FALSE, 0, r)
        ELSE Result([r EXCEPT !.tokens = r.tokens - n], TRUE, 0, r)

\* draws n whatever the balance
DrawMaxAt_Whole(bk, t, n) ==
    LET r == refill(bk, t)
    IN  Result([r EXCEPT !.tokens = r.tokens - n], TRUE, n, r)

DrawMaxAt(bk, t, n) ==
    LET r     == refill(bk, t)
        drawn == min(n, r.tokens)
    IN  Result([r EXCEPT !.tokens = r.tokens - drawn], TRUE, drawn, r)

\* stops at an empty bucket
ForceDrawAt_Floor(bk, t, n) ==
    LET r  == refill(bk, t)
        r2 == [r EXCEPT !.tokens = IF r.tokens - n < 0 THEN 0 ELSE r.tokens - n]
    IN  Result(r2, TRUE, r2.tokens, r)

ForceDrawAt(bk, t, n) ==
    LET r  == refill(bk, t)
        r2 == [r EXCEPT !.tokens = r.tokens - n]
    IN  Result(r2, TRUE, r2.tokens, r)

SetTokensAt(bk, t, tokens) ==
    LET r == refill(bk, t)
    IN  Result([r EXCEPT !.tokens = tokens], TRUE, 0, r)

\* reads the balance without reconciling
TokensAt_Stale(bk, t) == Result(bk, TRUE, bk.tokens, bk)

TokensAt(bk, t) ==
    LET r == refill(bk, t)
    IN  Result(r, TRUE, r.tokens, r)

\* writes the clamped balance back
RemainingAt_Store(bk, t) ==
    LET res == TokensAt(bk, t)
    IN  IF res.val < 0
        THEN Result([res.b EXCEPT !.tokens = 0], TRUE, 0, res.mid)
        ELSE Result(res.b, TRUE, res.val, res.mid)

RemainingAt(bk, t) ==
    LET res == TokensAt(bk, t)
    IN  IF res.val < 0
        THEN Result(res.b, TRUE, 0, res.mid)
        ELSE Result(res.b, TRUE, res.val, res.mid)

\* the forecast, were it to store what it computed
InferTokensAt_Caching(bk, t) ==
    LET r == refill(bk, t)
    IN  Result(r, TRUE, r.tokens, r)

\* the forecast, were it to forget the burst
InferTokensAt_Uncapped(bk, t) ==
    Result(bk, TRUE,
           bk.tokens + TruncDiv(t - bk.lastUpdate, bk.Refill) * bk.Limit, bk)

InferTokensAt(bk, t) ==
    LET delta  == TruncDiv(t - bk.lastUpdate, bk.Refill)
        tokens == bk.tokens + delta * bk.Limit
    IN  IF tokens > bk.Burst
        THEN Result(bk, TRUE, bk.Burst, bk)
        ELSE Result(bk, TRUE, tokens, bk)

NextRefillAt(bk, t) ==
    LET r == refill(bk, t)
    IN  Result(r, TRUE, nextAfter(r.lastUpdate, t, r.Refill), r)

\* resets to the rate instead of the burst
ResetAt_ToLimit(bk, t) ==
    Result([bk EXCEPT !.tokens = bk.Limit, !.lastUpdate = t], TRUE, 0, bk)

ResetAt(bk, t) ==
    Result([bk EXCEPT !.tokens = bk.Burst, !.lastUpdate = t], TRUE, 0, bk)

\* IsResetAt, were it to compare the stored balance without refill
IsResetAt_Stale(bk, t) ==
    Result(bk, bk.tokens = bk.Burst, 0, bk)

IsResetAt(bk, t) ==
    LET r == refill(bk, t)
    IN  Result(r, r.tokens = r.Burst, 0, r)


----------------------------------------------------------------------------
(* BucketManager *)

Threads == 1..NumThreads

Ids == {"a", "b"}

\* no bucket: the reference a lookup of an absent key yields
Nil == 0

\* New: no buckets yet
New(limit, burst, refillEvery) ==
    [Limit |-> limit, Burst |-> burst, Refill |-> refillEvery]

\* the method of Bucket a forwarded call ends in, at t == time.Now()
Forward(op, bk, t, n) ==
    CASE op = "Draw"      -> DrawAt(bk, t, n)
      [] op = "ForceDraw" -> ForceDrawAt(bk, t, n)
      [] op = "Tokens"    -> TokensAt(bk, t)

\* no record of the registry as a Purge found it
NoSnap == [buckets |-> [i \in Ids |-> Nil], heap |-> <<>>, t |-> 0,
           taken |-> FALSE]

\* a goroutine between two calls
\* (todo: the entries a range over m.buckets has yet to yield; may: those
\* created since it began, which it may yield or skip; held: the bucket
\* whose mux the goroutine holds for reading; removed: the local of Purge;
\* gone: the entries this Purge has deleted; snap: the registry as this
\* Purge found it, kept while no other goroutine has made a step)
NoFrame ==
    [op |-> "none", id |-> "a", n |-> 0, bucket |-> Nil, made |-> FALSE,
     todo |-> {}, may |-> {}, held |-> Nil, removed |-> 0, gone |-> 0,
     snap |-> NoSnap]

\* nothing has returned yet (calls: the calls begun so far; swept: Delete
\* or Purge is among them)
NoLast ==
    [op |-> "none", id |-> "a", made |-> FALSE, first |-> FALSE,
     ok |-> TRUE, val |-> 0, calls |-> 0, swept |-> FALSE,
     gone |-> 0, t |-> 0, snap |-> NoSnap]

\* a goroutine between two calls on the shared Bucket
\* (delta: the local of refill and of InferTokensAt; lu, tok: lastUpdate
\* and tokens as an assignment read them before it writes)
NoCallOn ==
    [pc |-> "idle", op |-> "none", t |-> 0, n |-> 0, delta |-> 0,
     lu |-> 0, tok |-> 0]

\* b.mux unlocked
Unlocked == [w |-> Nil, r |-> {}]

RegIdle ==
    /\ mux = Unlocked
    /\ gr = [th \in Threads |-> NoCallOn]
    /\ done = <<>>
    /\ buckets = [i \in Ids |-> Nil]
    /\ bucketMux = {}
    /\ heap = <<>>
    /\ pc = [th \in Threads |-> "idle"]
    /\ fr = [th \in Threads |-> NoFrame]
    /\ now = 0
    /\ purged = {}
    /\ last = NoLast

----------------------------------------------------------------------------
(* one Bucket, called by one goroutine *)

\* small configurations: a refill interval of two and of three ticks
Configs ==
    { [Limit |-> 1, Burst |-> 3, Refill |-> 2],
      [Limit |-> 2, Burst |-> 5, Refill |-> 3] }

\* the configurations of bucket_test.go
\* (TestBucketBasicTimings, TestBucket_Tokens)
TestConfigs ==
    { [Limit |-> 5,  Burst |-> 20, Refill |-> Sec],
      [Limit |-> 10, Burst |-> 25, Refill |-> Sec] }

\* the last timestamp of the tests
TestMaxTime == MaxSecs * Sec

\* the amounts n passed to the drawing methods
Amounts(bk) == {-1, 0, 1, 2, bk.Burst, bk.Burst + 1}

\* the amounts the tests draw
TestAmounts(bk) ==
    IF bk.Burst = 20 THEN {5, 10, 11, 15, 20} ELSE {10, 20, 25, 50}

\* the balances passed to SetTokensAt
Balances(bk) == {-1, 0, bk.Burst, bk.Burst + 1}

TestBalances(bk) == {-bk.Limit, 0, bk.Burst, bk.Burst + bk.Limit}

NoCall == [op |-> "NewBucket", t |-> 0, n |-> 0, ok |-> TRUE, val |-> 0]

InitWith(C) ==
    /\ \E c \in C : b = NewBucket(c.Limit, c.Burst, c.Refill)
    /\ pre = b
    /\ mid = b
    /\ call = NoCall
    /\ chrono = TRUE
    /\ m = New(b.Limit, b.Burst, b.Refill)
    /\ RegIdle
    /\ util = NoUtil

Init == InitWith(Configs)

\* a call that would leave the balance below the debt bound, or lastUpdate
\* beyond the last timestamp (descending timestamps push lastUpdate forward
\* without limit), is not taken
Bounded(to, res) ==
    /\ res.b.tokens >= -(MaxDebt * res.b.Limit)
    /\ res.b.lastUpdate <= to

\* the bookkeeping every call shares
Record(to, op, t, n, res) ==
    /\ Bounded(to, res)
    /\ b' = res.b
    /\ pre' = b
    /\ mid' = res.mid
    /\ call' = [op |-> op, t |-> t, n |-> n, ok |-> res.ok, val |-> res.val]
    /\ chrono' = (chrono /\ (call.op = "NewBucket" \/ t >= call.t))
    /\ UNCHANGED <<rvars, mvars, util>>

Call_CanDrawAt(from, to, A) ==
    \E t \in from..to, n \in A : Record(to, "CanDrawAt", t, n, CanDrawAt(b, t, n))

Call_DrawAt(from, to, A) ==
    \E t \in from..to, n \in A : Record(to, "DrawAt", t, n, DrawAt(b, t, n))

Call_DrawMaxAt(from, to, A) ==
    \E t \in from..to, n \in A : Record(to, "DrawMaxAt", t, n, DrawMaxAt(b, t, n))

Call_ForceDrawAt(from, to, A) ==
    \E t \in from..to, n \in A : Record(to, "ForceDrawAt", t, n, ForceDrawAt(b, t, n))

Call_SetTokensAt(from, to, V) ==
    \E t \in from..to, v \in V : Record(to, "SetTokensAt", t, v, SetTokensAt(b, t, v))

Call_TokensAt(from, to) ==
    \E t \in from..to : Record(to, "TokensAt", t, 0, TokensAt(b, t))

Call_RemainingAt(from, to) ==
    \E t \in from..to : Record(to, "RemainingAt", t, 0, RemainingAt(b, t))

Call_InferTokensAt(from, to) ==
    \E t \in from..to : Record(to, "InferTokensAt", t, 0, InferTokensAt(b, t))

Call_NextRefillAt(from, to) ==
    \E t \in from..to : Record(to, "NextRefillAt", t, 0, NextRefillAt(b, t))

Call_ResetAt(from, to) ==
    \E t \in from..to : Record(to, "ResetAt", t, 0, ResetAt(b, t))

Call_IsResetAt(from, to) ==
    \E t \in from..to : Record(to, "IsResetAt", t, 0, IsResetAt(b, t))

Next ==
    \/ Call_CanDrawAt(0, MaxTime, Amounts(b))
    \/ Call_DrawAt(0, MaxTime, Amounts(b))
    \/ Call_DrawMaxAt(0, MaxTime, Amounts(b))
    \/ Call_ForceDrawAt(0, MaxTime, Amounts(b))
    \/ Call_SetTokensAt(0, MaxTime, Balances(b))
    \/ Call_TokensAt(0, MaxTime)
    \/ Call_RemainingAt(0, MaxTime)
    \/ Call_InferTokensAt(0, MaxTime)
    \/ Call_NextRefillAt(0, MaxTime)
    \/ Call_ResetAt(0, MaxTime)
    \/ Call_IsResetAt(0, MaxTime)

Spec == Init /\ [][Next]_vars

\* the buckets of bucket_test.go: its configurations and its amounts, under
\* timestamps that never descend (the contract of the At methods)
TestInit == InitWith(TestConfigs)

TestNext ==
    \/ Call_CanDrawAt(call.t, TestMaxTime, TestAmounts(b))
    \/ Call_DrawAt(call.t, TestMaxTime, TestAmounts(b))
    \/ Call_DrawMaxAt(call.t, TestMaxTime, TestAmounts(b))
    \/ Call_ForceDrawAt(call.t, TestMaxTime, TestAmounts(b))
    \/ Call_SetTokensAt(call.t, TestMaxTime, TestBalances(b))
    \/ Call_TokensAt(call.t, TestMaxTime)
    \/ Call_RemainingAt(call.t, TestMaxTime)
    \/ Call_InferTokensAt(call.t, TestMaxTime)
    \/ Call_NextRefillAt(call.t, TestMaxTime)
    \/ Call_ResetAt(call.t, TestMaxTime)
    \/ Call_IsResetAt(call.t, TestMaxTime)

SpecTests == TestInit /\ [][TestNext]_vars

----------------------------------------------------------------------------
(* a BucketManager called by several goroutines *)

\* the configuration of the manager: a token every tick, two at most
RegConfigs == { [Limit |-> 1, Burst |-> 2, Refill |-> 1] }

\* the forwarded calls the goroutines make: the method and its amount
RegCalls ==
    { [op |-> "Draw", n |-> 1], [op |-> "ForceDraw", n |-> m.Burst + 1],
      [op |-> "Tokens", n |-> 0] }

\* the calls begun so far, by all goroutines
Begun == last.calls

\* the frames once another goroutine begins a call: a Purge in progress is
\* no longer alone
Disturbed ==
    [q \in Threads |-> [fr[q] EXCEPT !.snap = NoSnap]]

\* a goroutine calls m.Draw(id, n), m.ForceDraw(id, n) or m.Tokens(id).
\* getOrCreate: m.get(id) under the read lock (no writer holds the lock
\* between two steps); on a miss, NewBucket
Get(th) ==
    /\ pc[th] = "idle"
    /\ Begun < MaxCalls
    /\ \E c \in RegCalls, id \in Ids :
          LET f == [NoFrame EXCEPT !.op = c.op, !.id = id, !.n = c.n]
          IN  IF buckets[id] # Nil
              THEN /\ fr' = [Disturbed EXCEPT
                                ![th] = [f EXCEPT !.bucket = buckets[id]]]
                   /\ pc' = [pc EXCEPT ![th] = "call"]
                   /\ heap' = heap
              ELSE /\ heap' = Append(heap,
                                  [bk |-> NewBucket(m.Limit, m.Burst, m.Refill),
                                   id |-> id, calls |-> 0])
                   /\ fr' = [Disturbed EXCEPT ![th] =
                                [f EXCEPT !.bucket = Len(heap) + 1,
                                          !.made = TRUE]]
                   /\ pc' = [pc EXCEPT ![th] = "set"]
    /\ last' = [last EXCEPT !.calls = Begun + 1, !.snap = NoSnap]
    /\ UNCHANGED <<bvars, mvars, util, m, buckets, bucketMux, now, purged>>

\* the frames once the entry of id is created: a range in progress may
\* yield it or skip it
Created(id) ==
    [q \in Threads |->
        IF fr[q].op = "Purge"
        THEN [fr[q] EXCEPT !.todo = @ \ {id}, !.may = @ \cup {id}]
        ELSE fr[q]]

\* getOrCreate: m.set(id, bucket) under the write lock
Set(th) ==
    /\ pc[th] = "set"
    /\ bucketMux = {}
    /\ buckets' = [buckets EXCEPT ![fr[th].id] = fr[th].bucket]
    /\ fr' = IF buckets[fr[th].id] = Nil THEN Created(fr[th].id) ELSE fr
    /\ pc' = [pc EXCEPT ![th] = "call"]
    /\ UNCHANGED <<bvars, mvars, util, m, bucketMux, heap, now, purged, last>>

\* the method of the Bucket getOrCreate returned, under the bucket's lock
\* (b.mux.Lock() waits for the readers of the bucket), and the return to
\* the caller
Call(th) ==
    /\ pc[th] = "call"
    /\ \A q \in Threads : fr[q].held # fr[th].bucket
    /\ LET p   == fr[th].bucket
           res == Forward(fr[th].op, heap[p].bk, now, fr[th].n)
       IN  /\ res.b.tokens >= -(MaxDebt * m.Limit)
           /\ heap' = [heap EXCEPT ![p].bk = res.b,
                                   ![p].calls = heap[p].calls + 1]
           /\ last' = [last EXCEPT !.op = fr[th].op, !.id = fr[th].id,
                                   !.made = fr[th].made,
                                   !.first = (heap[p].calls = 0),
                                   !.ok = res.ok, !.val = res.val]
    /\ fr' = [fr EXCEPT ![th] = NoFrame]
    /\ pc' = [pc EXCEPT ![th] = "idle"]
    /\ UNCHANGED <<bvars, mvars, util, m, buckets, bucketMux, now, purged>>

\* m.Delete(id)
Delete(th) ==
    /\ pc[th] = "idle"
    /\ Begun < MaxCalls
    /\ bucketMux = {}
    /\ \E id \in Ids :
          /\ buckets' = [buckets EXCEPT ![id] = Nil]
          /\ purged' = purged \cup {id}
          /\ last' = [NoLast EXCEPT !.op = "Delete", !.id = id,
                                    !.calls = Begun + 1, !.swept = TRUE]
    /\ fr' = Disturbed
    /\ UNCHANGED <<bvars, mvars, util, m, bucketMux, heap, pc, now>>

\* m.Purge(): removed := 0, RLock, and the range over m.buckets begins.
\* (One Purge runs at a time: two of them would run refill on one bucket
\* under its read lock, which SpecMux follows step by step.)
PurgeBegin(th) ==
    /\ pc[th] = "idle"
    /\ Begun < MaxCalls
    /\ \A q \in Threads : fr[q].op # "Purge"
    /\ bucketMux' = bucketMux \cup {th}
    /\ fr' = [Disturbed EXCEPT ![th] =
                [NoFrame EXCEPT
                    !.op = "Purge", !.todo = Ids, !.removed = 0,
                    !.snap = IF \A q \in Threads \ {th} : pc[q] = "idle"
                             THEN [buckets |-> buckets, heap |-> heap,
                                   t |-> now, taken |-> TRUE]
                             ELSE NoSnap]]
    /\ pc' = [pc EXCEPT ![th] = "purge"]
    /\ last' = [last EXCEPT !.calls = Begun + 1, !.swept = TRUE,
                            !.snap = NoSnap]
    /\ UNCHANGED <<bvars, mvars, util, m, buckets, heap, now, purged>>

\* Purge: the range yields an entry it has not yielded yet, and
\* bucket.IsReset() takes the bucket's read lock, the read lock of the
\* registry still held
PurgeVisit(th) ==
    /\ pc[th] = "purge"
    /\ \E id \in fr[th].todo \cup fr[th].may :
          /\ buckets[id] # Nil
          /\ fr' = [fr EXCEPT ![th].todo = @ \ {id},
                              ![th].may = @ \ {id},
                              ![th].id = id,
                              ![th].held = buckets[id]]
    /\ pc' = [pc EXCEPT ![th] = "purge_isreset"]
    /\ UNCHANGED <<bvars, mvars, util, m, buckets, bucketMux, heap, now, purged, last>>

\* Purge: bucket.IsReset() runs refill, compares and releases the bucket's
\* read lock; if the bucket is reset, RUnlock of the registry
PurgeIsReset(th) ==
    /\ pc[th] = "purge_isreset"
    /\ LET p   == fr[th].held
           res == IsResetAt(heap[p].bk, now)
       IN  /\ heap' = [heap EXCEPT ![p].bk = res.b]
           /\ fr' = [fr EXCEPT ![th].held = Nil]
           /\ IF res.ok
              THEN /\ bucketMux' = bucketMux \ {th}
                   /\ pc' = [pc EXCEPT ![th] = "purge_delete"]
              ELSE /\ bucketMux' = bucketMux
                   /\ pc' = [pc EXCEPT ![th] = "purge"]
    /\ UNCHANGED <<bvars, mvars, util, m, buckets, now, purged, last>>

\* Purge: Lock, delete(m.buckets, id), Unlock; removed stays as it is
PurgeDelete(th) ==
    /\ pc[th] = "purge_delete"
    /\ bucketMux = {}
    /\ buckets' = [buckets EXCEPT ![fr[th].id] = Nil]
    /\ purged' = purged \cup {fr[th].id}
    /\ fr' = [fr EXCEPT ![th].gone =
                IF buckets[fr[th].id] # Nil THEN @ + 1 ELSE @]
    /\ pc' = [pc EXCEPT ![th] = "purge_rlock"]
    /\ UNCHANGED <<bvars, mvars, util, m, bucketMux, heap, now, last>>

\* Purge: RLock again, and the range goes on
PurgeRLock(th) ==
    /\ pc[th] = "purge_rlock"
    /\ bucketMux' = bucketMux \cup {th}
    /\ pc' = [pc EXCEPT ![th] = "purge"]
    /\ UNCHANGED <<bvars, mvars, util, m, buckets, heap, fr, now, purged, last>>

\* Purge: the range is over; RUnlock and return removed
PurgeEnd(th) ==
    /\ pc[th] = "purge"
    /\ \A id \in fr[th].todo : buckets[id] = Nil
    /\ bucketMux' = bucketMux \ {th}
    /\ last' = [NoLast EXCEPT !.op = "Purge", !.val = fr[th].removed,
                              !.gone = fr[th].gone, !.t = now,
                              !.snap = fr[th].snap,
                              !.calls = Begun, !.swept = TRUE]
    /\ fr' = [fr EXCEPT ![th] = NoFrame]
    /\ pc' = [pc EXCEPT ![th] = "idle"]
    /\ UNCHANGED <<bvars, mvars, util, m, buckets, heap, now, purged>>

\* the clock advances
Tick ==
    /\ now < MaxNow
    /\ now' = now + 1
    /\ UNCHANGED <<bvars, mvars, util, m, buckets, bucketMux, heap, pc, fr, purged, last>>

RegInit ==
    /\ \E c \in RegConfigs : m = New(c.Limit, c.Burst, c.Refill)
    /\ RegIdle
    /\ util = NoUtil
    /\ b = NewBucket(m.Limit, m.Burst, m.Refill)
    /\ pre = b
    /\ mid = b
    /\ call = NoCall
    /\ chrono = TRUE

RegNext ==
    \/ \E th \in Threads : Get(th)
    \/ \E th \in Threads : Set(th)
    \/ \E th \in Threads : Call(th)
    \/ \E th \in Threads : Delete(th)
    \/ \E th \in Threads : PurgeBegin(th)
    \/ \E th \in Threads : PurgeVisit(th)
    \/ \E th \in Threads : PurgeIsReset(th)
    \/ \E th \in Threads : PurgeDelete(th)
    \/ \E th \in Threads : PurgeRLock(th)
    \/ \E th \in Threads : PurgeEnd(th)
    \/ Tick

SpecReg == RegInit /\ [][RegNext]_vars

----------------------------------------------------------------------------
(* one Bucket shared by several goroutines *)

\* a token every tick, three at most
MuxConfigs == { [Limit |-> 1, Burst |-> 3, Refill |-> 1] }

\* the methods the goroutines call, at t == time.Now(): those that take
\* b.mux.Lock() ...
Locking == {"DrawAt", "TokensAt"}

\* ... and those that take b.mux.RLock()
RLocking == {"IsResetAt", "NextRefillAt", "InferTokensAt"}

\* the amount of a call
AmountOf(op) == IF op = "DrawAt" THEN 2 ELSE 0

\* a method of Bucket run from beginning to end
Apply(op, bk, t, n) ==
    CASE op = "DrawAt"        -> DrawAt(bk, t, n)
      [] op = "TokensAt"      -> TokensAt(bk, t)
      [] op = "IsResetAt"     -> IsResetAt(bk, t)
      [] op = "NextRefillAt"  -> NextRefillAt(bk, t)
      [] op = "InferTokensAt" -> InferTokensAt(bk, t)

\* the calls begun so far
Begun2 == Len(done) + Cardinality({th \in Threads : gr[th].pc # "idle"})

\* the variables the goroutines sharing b leave alone
others == <<pre, mid, call, chrono, m, buckets, bucketMux, heap, pc, fr,
            purged, last, util>>

\* a goroutine calls a method of b: Draw(n) is DrawAt(time.Now(), n), and
\* so on; the lock comes next
MuxBegin(th) ==
    /\ gr[th].pc = "idle"
    /\ Begun2 < MaxOps
    /\ \E op \in Locking \cup RLocking :
          gr' = [gr EXCEPT ![th] =
                   [NoCallOn EXCEPT
                       !.pc = IF op \in Locking THEN "lock" ELSE "rlock",
                       !.op = op, !.t = now, !.n = AmountOf(op)]]
    /\ UNCHANGED <<others, b, now, mux, done>>

\* b.mux.Lock()
MuxLock(th) ==
    /\ gr[th].pc = "lock"
    /\ mux = Unlocked
    /\ mux' = [mux EXCEPT !.w = th]
    /\ gr' = [gr EXCEPT ![th].pc = "locked"]
    /\ UNCHANGED <<others, b, now, done>>

\* the call returns: what it returned is recorded
Return(th, ok, val) ==
    /\ done' = Append(done, [op |-> gr[th].op, t |-> gr[th].t,
                             n |-> gr[th].n, ok |-> ok, val |-> val])
    /\ gr' = [gr EXCEPT ![th] = NoCallOn]

\* the body of a method that holds the write lock (refill first), and the
\* deferred b.mux.Unlock()
MuxRun(th) ==
    /\ gr[th].pc = "locked"
    /\ LET res == Apply(gr[th].op, b, gr[th].t, gr[th].n)
       IN  /\ b' = res.b
           /\ Return(th, res.ok, res.val)
    /\ mux' = Unlocked
    /\ UNCHANGED <<others, now>>

\* b.mux.RLock(): other readers do not stand in the way
MuxRLock(th) ==
    /\ gr[th].pc = "rlock"
    /\ mux.w = Nil
    /\ mux' = [mux EXCEPT !.r = @ \cup {th}]
    /\ gr' = [gr EXCEPT ![th].pc =
                IF gr[th].op = "InferTokensAt" THEN "infer" ELSE "refill"]
    /\ UNCHANGED <<others, b, now, done>>

\* refill under the read lock, one access to the bucket at a time.
\* if b.tokens == b.Burst
RefillTest(th) ==
    /\ gr[th].pc = "refill"
    /\ gr' = [gr EXCEPT ![th].pc =
                IF b.tokens = b.Burst THEN "full" ELSE "count"]
    /\ UNCHANGED <<others, b, now, mux, done>>

\* b.lastUpdate = t; return
RefillFull(th) ==
    /\ gr[th].pc = "full"
    /\ b' = [b EXCEPT !.lastUpdate = gr[th].t]
    /\ gr' = [gr EXCEPT ![th].pc = "ret"]
    /\ UNCHANGED <<others, now, mux, done>>

\* delta := intervalCount(b.lastUpdate, t, b.Refill)
RefillCount(th) ==
    /\ gr[th].pc = "count"
    /\ gr' = [gr EXCEPT ![th].delta =
                          intervalCount(b.lastUpdate, gr[th].t, b.Refill),
                        ![th].pc = "skip"]
    /\ UNCHANGED <<others, b, now, mux, done>>

\* skipDiff: b.lastUpdate.Add(mod) reads lastUpdate ...
SkipRead(th) ==
    /\ gr[th].pc = "skip"
    /\ gr' = [gr EXCEPT ![th].lu = b.lastUpdate, ![th].pc = "skip_w"]
    /\ UNCHANGED <<others, b, now, mux, done>>

\* ... and b.lastUpdate = stores the sum
SkipWrite(th) ==
    /\ gr[th].pc = "skip_w"
    /\ b' = skipDiff([b EXCEPT !.lastUpdate = gr[th].lu], gr[th].delta)
    /\ gr' = [gr EXCEPT ![th].pc = "add"]
    /\ UNCHANGED <<others, now, mux, done>>

\* b.tokens += delta * b.Limit reads tokens ...
AddRead(th) ==
    /\ gr[th].pc = "add"
    /\ gr' = [gr EXCEPT ![th].tok = b.tokens, ![th].pc = "add_w"]
    /\ UNCHANGED <<others, b, now, mux, done>>

\* ... and stores the sum
AddWrite(th) ==
    /\ gr[th].pc = "add_w"
    /\ b' = [b EXCEPT !.tokens = gr[th].tok + gr[th].delta * b.Limit]
    /\ gr' = [gr EXCEPT ![th].pc = "clamp"]
    /\ UNCHANGED <<others, now, mux, done>>

\* if b.tokens >= b.Burst
ClampTest(th) ==
    /\ gr[th].pc = "clamp"
    /\ gr' = [gr EXCEPT ![th].pc =
                IF b.tokens >= b.Burst THEN "clamp_w" ELSE "ret"]
    /\ UNCHANGED <<others, b, now, mux, done>>

\* b.tokens = b.Burst
ClampTokens(th) ==
    /\ gr[th].pc = "clamp_w"
    /\ b' = [b EXCEPT !.tokens = b.Burst]
    /\ gr' = [gr EXCEPT ![th].pc = "clamp_t"]
    /\ UNCHANGED <<others, now, mux, done>>

\* b.lastUpdate = t
ClampTime(th) ==
    /\ gr[th].pc = "clamp_t"
    /\ b' = [b EXCEPT !.lastUpdate = gr[th].t]
    /\ gr' = [gr EXCEPT ![th].pc = "ret"]
    /\ UNCHANGED <<others, now, mux, done>>

\* IsResetAt: return b.tokens == b.Burst; NextRefillAt: return
\* nextAfter(b.lastUpdate, t, b.Refill); and the deferred b.mux.RUnlock()
MuxReturn(th) ==
    /\ gr[th].pc = "ret"
    /\ IF gr[th].op = "IsResetAt"
       THEN Return(th, b.tokens = b.Burst, 0)
       ELSE Return(th, TRUE, nextAfter(b.lastUpdate, gr[th].t, b.Refill))
    /\ mux' = [mux EXCEPT !.r = @ \ {th}]
    /\ UNCHANGED <<others, b, now>>

\* InferTokensAt: delta := int64(t.Sub(b.lastUpdate) / b.Refill)
InferDelta(th) ==
    /\ gr[th].pc = "infer"
    /\ gr' = [gr EXCEPT ![th].delta =
                          TruncDiv(gr[th].t - b.lastUpdate, b.Refill),
                        ![th].pc = "infer_t"]
    /\ UNCHANGED <<others, b, now, mux, done>>

\* InferTokensAt: tokens := b.tokens + delta*b.Limit, the comparison with
\* Burst, the return and the deferred b.mux.RUnlock()
InferReturn(th) ==
    /\ gr[th].pc = "infer_t"
    /\ LET tokens == b.tokens + gr[th].delta * b.Limit
       IN  Return(th, TRUE, IF tokens > b.Burst THEN b.Burst ELSE tokens)
    /\ mux' = [mux EXCEPT !.r = @ \ {th}]
    /\ UNCHANGED <<others, b, now>>

MuxInit ==
    /\ \E c \in MuxConfigs : b = NewBucket(c.Limit, c.Burst, c.Refill)
    /\ pre = b
    /\ mid = b
    /\ call = NoCall
    /\ chrono = TRUE
    /\ m = New(b.Limit, b.Burst, b.Refill)
    /\ RegIdle
    /\ util = NoUtil

MuxNext ==
    \/ \E th \in Threads : MuxBegin(th)
    \/ \E th \in Threads : MuxLock(th)
    \/ \E th \in Threads : MuxRun(th)
    \/ \E th \in Threads : MuxRLock(th)
    \/ \E th \in Threads : RefillTest(th)
    \/ \E th \in Threads : RefillFull(th)
    \/ \E th \in Threads : RefillCount(th)
    \/ \E th \in Threads : SkipRead(th)
    \/ \E th \in Threads : SkipWrite(th)
    \/ \E th \in Threads : AddRead(th)
    \/ \E th \in Threads : AddWrite(th)
    \/ \E th \in Threads : ClampTest(th)
    \/ \E th \in Threads : ClampTokens(th)
    \/ \E th \in Threads : ClampTime(th)
    \/ \E th \in Threads : MuxReturn(th)
    \/ \E th \in Threads : InferDelta(th)
    \/ \E th \in Threads : InferReturn(th)
    \/ Tick

SpecMux == MuxInit /\ [][MuxNext]_vars

----------------------------------------------------------------------------
(* the functions of utils.go, called on their own *)

\* the arguments: two instants, in either order, and a positive interval
UtilInit ==
    /\ \E s \in 0..MaxTime, e \in 0..MaxTime, i \in 1..MaxInterval :
          util = [NoUtil EXCEPT !.start = s, !.end = e, !.interval = i]
    /\ \E c \in RegConfigs : m = New(c.Limit, c.Burst, c.Refill)
    /\ RegIdle
    /\ b = NewBucket(m.Limit, m.Burst, m.Refill)
    /\ pre = b
    /\ mid = b
    /\ call = NoCall
    /\ chrono = TRUE

Util_intervalCount ==
    /\ util' = [util EXCEPT
                  !.fn = "intervalCount",
                  !.val = intervalCount(util.start, util.end, util.interval)]
    /\ UNCHANGED <<bvars, rvars, mvars>>

Util_nextAfter ==
    /\ util' = [util EXCEPT
                  !.fn = "nextAfter",
                  !.val = nextAfter(util.start, util.end, util.interval)]
    /\ UNCHANGED <<bvars, rvars, mvars>>

Util_min ==
    /\ util' = [util EXCEPT !.fn = "min", !.val = min(util.start, util.end)]
    /\ UNCHANGED <<bvars, rvars, mvars>>

UtilNext ==
    \/ Util_intervalCount
    \/ Util_nextAfter
    \/ Util_min

SpecUtils == UtilInit /\ [][UtilNext]_vars

----------------------------------------------------------------------------
(* one Bucket, over-drawn and then left to recover *)

\* the instant by which the deepest debt drawn at MaxDrawTime is refilled
RecMaxTime(bk) ==
    MaxDrawTime + (MaxDebt + (bk.Burst + bk.Limit - 1) \div bk.Limit) * bk.Refill

\* the amounts of the forced draws
RecAmounts(bk) == {bk.Burst, bk.Burst + 1, bk.Burst + MaxDebt * bk.Limit}

RecInit == InitWith(Configs)

\* ForceDrawAt, as long as the bucket has only been drawn from and is not
\* in debt; timestamps never descend
Rec_ForceDrawAt ==
    /\ call.op \in {"NewBucket", "ForceDrawAt"}
    /\ b.tokens >= 0
    /\ Call_ForceDrawAt(call.t, MaxDrawTime, RecAmounts(b))

\* two queries are at most one refill interval apart
RecUpTo(bk) ==
    IF call.t + bk.Refill < RecMaxTime(bk)
    THEN call.t + bk.Refill
    ELSE RecMaxTime(bk)

\* a query at an instant one refill interval or more after lastUpdate
Later ==
    \E t \in call.t..RecUpTo(b) :
        /\ t >= b.lastUpdate + b.Refill
        /\ Record(RecMaxTime(b), "IsResetAt", t, 0, IsResetAt(b, t))

\* after the draws, the calls that neither draw nor set the balance
RecNext ==
    \/ Rec_ForceDrawAt
    \/ Call_CanDrawAt(call.t, RecUpTo(b), {b.Burst})
    \/ Call_TokensAt(call.t, RecUpTo(b))
    \/ Call_RemainingAt(call.t, RecUpTo(b))
    \/ Call_InferTokensAt(call.t, RecUpTo(b))
    \/ Call_NextRefillAt(call.t, RecUpTo(b))
    \/ Call_IsResetAt(call.t, RecUpTo(b))

\* the queried time keeps advancing
SpecRecover == RecInit /\ [][RecNext]_vars /\ WF_vars(Later)

----------------------------------------------------------------------------
(* properties *)

\* the methods that run refill first
Reconciling ==
    {"CanDrawAt", "DrawAt", "DrawMaxAt", "ForceDrawAt", "SetTokensAt",
     "TokensAt", "RemainingAt", "NextRefillAt", "IsResetAt"}

\* the balance the last call found after reconciling the refills at call.t
Reconciled == refill(pre, call.t).tokens

\* whole refill intervals from the lastUpdate the last call found to call.t
Elapsed == (call.t - pre.lastUpdate) \div pre.Refill

\* C1: DrawAt(t, n) is all or nothing. With T the balance after reconciling
\* the refills at t: if n <= T it returns true and leaves exactly T - n, and
\* if n > T it returns false and leaves exactly T.
C1_DrawAllOrNothing ==
    call.op = "DrawAt" =>
        IF call.n <= Reconciled
        THEN call.ok /\ b.tokens = Reconciled - call.n
        ELSE ~call.ok /\ b.tokens = Reconciled

\* a draw of the whole balance, just credited by a refill, succeeds
C1_Witness ==
    /\ call.op = "DrawAt"
    /\ call.ok
    /\ call.n > 0
    /\ call.n = Reconciled
    /\ Reconciled > pre.tokens

\* C2: under timestamps that never descend, a reconciling call at t on a
\* bucket below Burst sees min(Burst, tokens + k * Limit), k the number of
\* whole Refill intervals from lastUpdate to t; a begun interval credits
\* nothing. With rate 5, burst 20, refill 1s: a draw of 15 at t0 leaves 5, a
\* draw of 5 at t0+1s leaves 5, a draw of 11 at t0+2s fails on a balance of
\* 10, and a draw of 10 at t0+2s then leaves 0.
C2_LazyRefillCredit ==
    /\ (call.op \in Reconciling /\ pre.tokens < pre.Burst) =>
          /\ call.t >= pre.lastUpdate
          /\ mid.tokens = min(pre.Burst, pre.tokens + Elapsed * pre.Limit)
          /\ call.op \in {"TokensAt", "RemainingAt"} /\ mid.tokens >= 0
                => call.val = mid.tokens
          /\ call.op \in {"CanDrawAt", "DrawAt"}
                => (call.ok <=> call.n <= mid.tokens)
    /\ (call.op = "DrawAt" /\ pre.Limit = 5 /\ pre.Burst = 20) =>
          /\ (pre.tokens = 20 /\ call.n = 15)
                => call.ok /\ b.tokens = 5 /\ b.lastUpdate = call.t
          /\ (pre.tokens = 5 /\ call.t = pre.lastUpdate + Sec /\ call.n = 5)
                => call.ok /\ b.tokens = 5 /\ b.lastUpdate = call.t
          /\ (pre.tokens = 5 /\ call.t = pre.lastUpdate + Sec /\ call.n = 11)
                => ~call.ok /\ b.tokens = 10 /\ b.lastUpdate = call.t
          /\ (pre.tokens = 10 /\ call.t = pre.lastUpdate /\ call.n = 10)
                => call.ok /\ b.tokens = 0

\* the draw of 11 that fails on 10 tokens, five of them just credited, and
\* a call that finds one whole interval and a begun one
C2_Witness ==
    \/ /\ call.op = "DrawAt" /\ call.n = 11 /\ ~call.ok
       /\ pre.tokens = 5 /\ b.tokens = 10
       /\ call.t = pre.lastUpdate + Sec
    \/ /\ call.op = "TokensAt" /\ pre.tokens < pre.Burst
       /\ call.t = pre.lastUpdate + pre.Refill + 1
       /\ call.val = pre.tokens + pre.Limit

\* C3 as stated: with rate 5, burst 20, refill 1s, after a draw of 20 at t0,
\* Tokens is 5 at t0+1s and 15 at t0+4s, and 20 once the credit would pass 20.
C3_AsStated ==
    /\ (call.op = "DrawAt" /\ pre.Limit = 5 /\ pre.tokens = 20 /\ call.n = 20)
          => call.ok /\ b.tokens = 0 /\ b.lastUpdate = call.t
    /\ (call.op = "TokensAt" /\ pre.Limit = 5 /\ pre.tokens = 0) =>
          /\ call.t = pre.lastUpdate + Sec => call.val = 5
          /\ call.t = pre.lastUpdate + 4 * Sec => call.val = 15
          /\ Elapsed * 5 > 20 => call.val = 20

\* C3, amended: after the draw of 20 at t0, Tokens is 5 at t0+1s, 15 at
\* t0+3s, and 20 from t0+4s on (the credit of four intervals reaches the
\* burst).
C3_RefillTimings ==
    /\ (call.op = "DrawAt" /\ pre.Limit = 5 /\ pre.tokens = 20 /\ call.n = 20)
          => call.ok /\ b.tokens = 0 /\ b.lastUpdate = call.t
    /\ (call.op = "TokensAt" /\ pre.Limit = 5 /\ pre.tokens = 0) =>
          /\ Elapsed = 1 => call.val = 5
          /\ Elapsed = 3 => call.val = 15
          /\ Elapsed >= 4 => call.val = 20 /\ b.lastUpdate = call.t

\* Tokens four seconds after the bucket was emptied
C3_Witness ==
    /\ call.op = "TokensAt"
    /\ pre.Limit = 5
    /\ pre.tokens = 0
    /\ call.t = pre.lastUpdate + 4 * Sec
    /\ call.val = 20

\* C4: right after refill, tokens <= Burst, whatever calls came before
\* (SetTokensAt above Burst among them).
C4_ReconciledWithinBurst ==
    call.op \in Reconciling => mid.tokens <= mid.Burst

\* refill finds a balance above Burst, left by SetTokensAt, and clamps it
C4_Witness ==
    /\ call.op \in Reconciling
    /\ pre.tokens > pre.Burst
    /\ mid.tokens = mid.Burst

\* C5 as stated: ForceDrawAt(t, n) never rejects, subtracts n from the
\* reconciled balance and returns the new balance, which a following
\* TokensAt(t) returns too.
C5_AsStated ==
    (chrono /\ call.op = "ForceDrawAt") =>
        /\ b.tokens = Reconciled - call.n
        /\ call.val = b.tokens
        /\ TokensAt(b, call.t).val = call.val

\* C5, amended: ForceDrawAt(t, n) subtracts n from the reconciled balance
\* and returns the new balance, negative or not; a following TokensAt(t)
\* returns it too unless it is above Burst (n < 0), which TokensAt clamps.
C5_ForceDraw ==
    call.op = "ForceDrawAt" =>
        /\ b.tokens = Reconciled - call.n
        /\ call.val = b.tokens
        /\ chrono =>
              TokensAt(b, call.t).val = min(call.val, b.Burst)

\* a full bucket over-drafted
C5_Witness ==
    /\ call.op = "ForceDrawAt"
    /\ pre.tokens = pre.Burst
    /\ call.n > pre.Burst
    /\ call.val < 0
    /\ chrono

\* C6: DrawMaxAt(t, n) returns min(n, T), T the reconciled balance, and
\* leaves T less what it returned.
C6_DrawMax ==
    call.op = "DrawMaxAt" =>
        /\ call.val = (IF call.n < Reconciled THEN call.n ELSE Reconciled)
        /\ b.tokens = Reconciled - call.val

\* a draw cut short by the balance
C6_Witness ==
    /\ call.op = "DrawMaxAt"
    /\ 0 < call.val
    /\ call.val < call.n
    /\ b.tokens = 0

\* C7: RemainingAt(t) returns max(0, TokensAt(t)), never a negative number,
\* and leaves the stored balance as TokensAt(t) leaves it: a negative balance
\* is what a following TokensAt(t) returns.
C7_Remaining ==
    call.op = "RemainingAt" =>
        /\ call.val = (IF TokensAt(pre, call.t).val < 0
                       THEN 0 ELSE TokensAt(pre, call.t).val)
        /\ call.val >= 0
        /\ b = TokensAt(pre, call.t).b
        /\ (chrono /\ mid.tokens < 0) => TokensAt(b, call.t).val = mid.tokens

\* Remaining on an over-drafted bucket
C7_Witness ==
    /\ call.op = "RemainingAt"
    /\ chrono
    /\ mid.tokens < 0
    /\ call.val = 0
    /\ b.tokens < 0

\* C8: after ResetAt(t), from any state, TokensAt(t) is Burst, IsResetAt(t)
\* is true, lastUpdate is t, and Limit, Burst and Refill are as before.
C8_Reset ==
    call.op = "ResetAt" =>
        /\ TokensAt(b, call.t).val = b.Burst
        /\ IsResetAt(b, call.t).ok
        /\ b.lastUpdate = call.t
        /\ b.Limit = pre.Limit
        /\ b.Burst = pre.Burst
        /\ b.Refill = pre.Refill

\* a reset of an over-drafted bucket
C8_Witness ==
    /\ call.op = "ResetAt"
    /\ pre.tokens < 0
    /\ pre.lastUpdate # call.t

\* the buckets constructed so far for the identity id
BucketsOf(id) == { p \in 1..Len(heap) : heap[p].id = id }

\* C9: a bucket the manager creates for an identity it has not seen carries
\* the manager's Limit, Burst and Refill and starts full: a first call of
\* Tokens returns Burst, whatever the time.
C9_CreatedFull ==
    /\ \A p \in 1..Len(heap) :
          heap[p].calls = 0 =>
              /\ heap[p].bk.Limit = m.Limit
              /\ heap[p].bk.Burst = m.Burst
              /\ heap[p].bk.Refill = m.Refill
              /\ heap[p].bk.tokens = m.Burst
    /\ (last.op = "Tokens" /\ last.first) => last.val = m.Burst

\* Tokens, after the clock has advanced, on the bucket the call created
C9_Witness ==
    /\ last.op = "Tokens"
    /\ last.first
    /\ last.made
    /\ now > 0
    /\ last.val = m.Burst

\* C10: as long as Delete and Purge are not called, concurrent calls for one
\* unseen identity construct one bucket, and every one of them works on it:
\* a bucket that has served a call is the bucket registered for its identity.
C10_OneBucketPerIdentity ==
    ~last.swept =>
        \A id \in Ids :
            /\ Cardinality(BucketsOf(id)) <= 1
            /\ \A p \in BucketsOf(id) : heap[p].calls > 0 => buckets[id] = p

\* C15: InferTokensAt(t) is a pure read: from every bucket state and for
\* every t it leaves tokens, lastUpdate and the configuration as they were.
C15_InferTokensPure ==
    call.op = "InferTokensAt" => b = pre

\* a forecast that differs from the stored balance, which stays stored
C15_Witness ==
    /\ call.op = "InferTokensAt"
    /\ pre.tokens < pre.Burst
    /\ call.val > pre.tokens
    /\ b.tokens = pre.tokens
    /\ b.lastUpdate # call.t

\* C16: NextRefillAt(t) does not modify the bucket: tokens and lastUpdate
\* are after the call what they were before it.
C16_NextRefillReadOnly ==
    call.op = "NextRefillAt" => b = pre

\* C17: under timestamps that never descend, a second TokensAt(t) or
\* CanDrawAt(t, n) right after the first, with the same arguments, returns
\* what the first returned and leaves tokens and lastUpdate as the first
\* left them.
C17_ReadIdempotent ==
    /\ (chrono /\ call.op = "TokensAt") =>
          /\ TokensAt(b, call.t).val = call.val
          /\ TokensAt(b, call.t).b = b
    /\ (chrono /\ call.op = "CanDrawAt") =>
          /\ CanDrawAt(b, call.t, call.n).ok = call.ok
          /\ CanDrawAt(b, call.t, call.n).b = b

\* a first read that credited a refill and left a begun interval behind
C17_Witness ==
    /\ chrono
    /\ call.op \in {"TokensAt", "CanDrawAt"}
    /\ b.tokens > pre.tokens
    /\ b.tokens < b.Burst
    /\ b.lastUpdate < call.t

\* C18: from a balance that is not negative, no call other than ForceDrawAt
\* and SetTokensAt leaves (or finds, after refill) a negative balance.
C18_OnlyForcedGoesNegative ==
    (call.op \notin {"ForceDrawAt", "SetTokensAt"} /\ pre.tokens >= 0) =>
        /\ mid.tokens >= 0
        /\ b.tokens >= 0

\* a draw that takes the whole balance, and a DrawMaxAt asked for more
\* than there is
C18_Witness ==
    /\ call.op \in {"DrawAt", "DrawMaxAt"}
    /\ pre.tokens > 0
    /\ call.n >= mid.tokens
    /\ call.n > 0
    /\ b.tokens = 0
    /\ (call.op = "DrawMaxAt" => call.n > mid.tokens)

\* C20: under timestamps that never descend, no call moves lastUpdate
\* backward, and after a call at t, lastUpdate <= t.
C20_LastUpdateMonotone ==
    (chrono /\ call.op # "NewBucket") =>
        /\ pre.lastUpdate <= b.lastUpdate
        /\ b.lastUpdate <= call.t

\* lastUpdate moved forward by whole intervals to short of t
C20_Witness ==
    /\ chrono
    /\ call.op \in Reconciling
    /\ pre.lastUpdate > 0
    /\ pre.lastUpdate < b.lastUpdate
    /\ b.lastUpdate < call.t

\* C11: Purge returns the number of entries it removed from the registry
\* during the call.
C11_PurgeReturnsCount ==
    last.op = "Purge" => last.val = last.gone

C14_LocksNeverNested ==
    \A th \in Threads : ~(th \in bucketMux /\ fr[th].held # Nil)

\* the one-to-one orders of n calls
Orders(n) ==
    { f \in [1..n -> 1..n] : \A i, j \in 1..n : f[i] = f[j] => i = j }

\* the calls done[f[i]], done[f[i+1]], ... run one after the other from bk
\* return what they returned and leave b as it is
RECURSIVE Replays(_, _, _)
Replays(bk, f, i) ==
    IF i > Len(done)
    THEN bk = b
    ELSE LET c   == done[f[i]]
             res == Apply(c.op, bk, c.t, c.n)
         IN  /\ res.ok = c.ok
             /\ res.val = c.val
             /\ Replays(res.b, f, i + 1)

\* C13: the calls on one bucket are linearizable: once they have all
\* returned, tokens, lastUpdate and every returned value are those of the
\* calls run one after the other in some order.
C13_Linearizable ==
    (\A th \in Threads : gr[th].pc = "idle") =>
        \E f \in Orders(Len(done)) :
            Replays(NewBucket(b.Limit, b.Burst, b.Refill), f, 1)

\* the goroutines inside refill, or about to enter it with the lock taken
InRefill ==
    { th \in Threads :
        gr[th].pc \in {"locked", "refill", "full", "count", "skip", "skip_w",
                       "add", "add_w", "clamp", "clamp_w", "clamp_t"} }

\* C19: refill runs only while its goroutine holds the write lock of the
\* bucket: never two goroutines in refill at once, never one in refill
\* while another holds the read lock.
C19_RefillUnderWriteLock ==
    \A th \in InRefill :
        /\ mux.w = th
        /\ InRefill = {th}
        /\ mux.r \ {th} = {}

\* C21: under timestamps that never descend, a refill that leaves the
\* balance below Burst moves lastUpdate by a whole number of Refill
\* intervals and leaves 0 <= t - lastUpdate < Refill; a refill that finds or
\* makes the balance Burst sets lastUpdate to t.
C21_PhaseAlignment ==
    (chrono /\ call.op \in Reconciling) =>
        IF mid.tokens < mid.Burst
        THEN /\ mid.lastUpdate >= pre.lastUpdate
             /\ (mid.lastUpdate - pre.lastUpdate) % pre.Refill = 0
             /\ 0 <= call.t - mid.lastUpdate
             /\ call.t - mid.lastUpdate < pre.Refill
        ELSE /\ mid.tokens = mid.Burst
             /\ mid.lastUpdate = call.t

\* two intervals credited at once, a begun one left over
C21_Witness ==
    /\ chrono
    /\ call.op \in Reconciling
    /\ mid.tokens < mid.Burst
    /\ mid.lastUpdate = pre.lastUpdate + 2 * pre.Refill
    /\ mid.lastUpdate < call.t

\* C23: under timestamps that never descend, InferTokensAt(t) returns what
\* TokensAt(t), called in its place, would return.
C23_InferIsForecast ==
    (chrono /\ call.op = "InferTokensAt") =>
        call.val = TokensAt(pre, call.t).val

\* a forecast of a balance between the stored one and the burst, and a
\* forecast of a debt
C23_Witness ==
    /\ chrono
    /\ call.op = "InferTokensAt"
    /\ call.val > pre.tokens
    /\ call.val < pre.Burst
    /\ pre.tokens < 0

\* C24: for n >= 0 and every balance, DrawMaxAt(t, n) returns a value from
\* 0 to n and does not raise the balance.
C24_DrawMaxNeverRaises ==
    (call.op = "DrawMaxAt" /\ call.n >= 0) =>
        /\ 0 <= call.val
        /\ call.val <= call.n
        /\ b.tokens <= mid.tokens

\* C22: nextAfter(start, end, interval) is the earliest instant
\* start + k * interval, k >= 0, that is strictly after end, whichever of
\* start and end comes first.
C22_NextAfterEarliest ==
    util.fn = "nextAfter" =>
        /\ util.val > util.end
        /\ util.val >= util.start
        /\ (util.val - util.start) % util.interval = 0
        /\ (util.val = util.start \/ util.val - util.interval <= util.end)

\* C25: a Purge that runs while other goroutines draw removes no bucket
\* whose balance is below Burst at the moment of the removal, so that a draw
\* made through the registry during the Purge is not forgotten.
C25_PurgeKeepsDrawn ==
    [][\A th \in Threads :
          (/\ pc[th] = "purge_delete"
           /\ pc'[th] = "purge_rlock"
           /\ buckets[fr[th].id] # Nil)
          => TokensAt(heap[buckets[fr[th].id]].bk, now).val = m.Burst]_vars

\* the calls of the recovery that reconcile
Recovering ==
    {"CanDrawAt", "TokensAt", "RemainingAt", "NextRefillAt", "IsResetAt"}

\* C26: with no further draw and no SetTokens, a bucket in debt recovers
\* through the refills alone: a query finds the balance raised by exactly
\* Limit for each whole Refill interval elapsed since lastUpdate, capped at
\* Burst, and nothing more; as the queried time keeps advancing the balance
\* reaches Burst, where IsReset is true, and from then on it stays at Burst.
C26_Recovery ==
    /\ [](call.op \in Recovering =>
             b.tokens = IF pre.tokens + Elapsed * pre.Limit >= pre.Burst
                        THEN pre.Burst
                        ELSE pre.tokens + Elapsed * pre.Limit)
    /\ (b.tokens < 0) ~> (b.tokens = b.Burst)
    /\ [][(b.tokens = b.Burst /\ call'.op # "ForceDrawAt")
             => b'.tokens = b'.Burst]_vars

\* a bucket in debt that a query finds short of Burst after whole intervals
\* have been credited
C26_Witness ==
    /\ call.op = "IsResetAt"
    /\ pre.tokens < 0
    /\ Elapsed >= 2
    /\ b.tokens = pre.tokens + Elapsed * pre.Limit
    /\ b.tokens > 0
    /\ ~call.ok

====
